---------------------------- MODULE Spec2Model ----------------------------
(***************************************************************************)
(* A model of Backend/flaskapp.py: the /upload request handler, the file   *)
(* type router, the statistics counter and the keyword extractor.          *)
(*                                                                         *)
(* File names are sequences of one-character strings.  A text is a         *)
(* sequence of tagged tokens [text, pos]: what the tokenizers and the      *)
(* part-of-speech tagger make of a string.  An optional value (a query     *)
(* parameter, a file on disk) is the empty set or a singleton.             *)
(***************************************************************************)
EXTENDS Integers, Sequences, FiniteSets, TLC

(***************************************************************************)
(* Bounds of the model.                                                    *)
(***************************************************************************)
MaxRequests == 2    \* requests served, one after the other, in Spec
MaxTokens == 4      \* length of the token streams of SpecKeywords
MaxKeywords == 3    \* largest num_keywords of SpecKeywords

(***************************************************************************)
(* Characters and strings.                                                 *)
(***************************************************************************)
UpperSeq == << "A", "B", "C", "D", "E", "F", "G", "H", "I", "J", "K", "L", "M",
               "N", "O", "P", "Q", "R", "S", "T", "U", "V", "W", "X", "Y", "Z" >>
LowerSeq == << "a", "b", "c", "d", "e", "f", "g", "h", "i", "j", "k", "l", "m",
               "n", "o", "p", "q", "r", "s", "t", "u", "v", "w", "x", "y", "z" >>
Digits == << "0", "1", "2", "3", "4", "5", "6", "7", "8", "9" >>

Range(s) == { s[i] : i \in DOMAIN s }

\* str.lower() of one character
LowerChar(c) ==
    IF \E i \in DOMAIN UpperSeq : UpperSeq[i] = c
    THEN LowerSeq[CHOOSE i \in DOMAIN UpperSeq : UpperSeq[i] = c]
    ELSE c

\* str.lower()
lower(s) == [ i \in DOMAIN s |-> LowerChar(s[i]) ]

\* str.endswith(suffix)
endswith(s, suffix) ==
    /\ Len(s) >= Len(suffix)
    /\ SubSeq(s, Len(s) - Len(suffix) + 1, Len(s)) = suffix

\* the characters of s as one string
RECURSIVE Str(_)
Str(cs) == IF cs = << >> THEN "" ELSE Head(cs) \o Str(Tail(cs))

\* the index of the last c in s, 0 when there is none (str.rfind, 1-based)
rfind(s, c) ==
    IF \E i \in DOMAIN s : s[i] = c
    THEN CHOOSE i \in DOMAIN s : s[i] = c /\ \A j \in DOMAIN s : s[j] = c => j <= i
    ELSE 0

\* filename.rsplit('.', 1)[1], for a filename that holds a '.'
rsplit_ext(filename) == SubSeq(filename, rfind(filename, ".") + 1, Len(filename))

(***************************************************************************)
(* Configuration and the extension check.                                  *)
(***************************************************************************)
ALLOWED_EXTENSIONS ==
    { <<"p","d","f">>, <<"d","o","c","x">>, <<"t","x","t">>,
      <<"p","n","g">>, <<"j","p","g">>, <<"j","p","e","g">> }

allowed_file(filename) ==
    /\ "." \in Range(filename)
    /\ lower(rsplit_ext(filename)) \in ALLOWED_EXTENSIONS

(***************************************************************************)
(* werkzeug's secure_filename, as the handler calls it on a POSIX host:    *)
(* non-ASCII characters are dropped, "/" becomes a space, runs of          *)
(* whitespace become one "_", characters outside [A-Za-z0-9_.-] are        *)
(* removed and leading and trailing "." and "_" are stripped.              *)
(***************************************************************************)
SafeChars == Range(UpperSeq) \cup Range(LowerSeq) \cup Range(Digits) \cup {"_", ".", "-"}
AsciiChars == SafeChars \cup {" ", "/"}

ReplaceSep(s) == [ i \in DOMAIN s |-> IF s[i] = "/" THEN " " ELSE s[i] ]

\* "_".join(s.split()): leading and trailing blanks go, inner runs become "_"
RECURSIVE JoinSplit(_, _, _)
JoinSplit(s, out, gap) ==
    IF s = << >> THEN out
    ELSE IF Head(s) = " " THEN JoinSplit(Tail(s), out, out # << >>)
    ELSE JoinSplit(Tail(s), (IF gap THEN Append(out, "_") ELSE out) \o << Head(s) >>, FALSE)

RECURSIVE lstrip(_, _)
lstrip(s, chars) ==
    IF s # << >> /\ Head(s) \in chars THEN lstrip(Tail(s), chars) ELSE s

RECURSIVE rstrip(_, _)
rstrip(s, chars) ==
    IF s # << >> /\ s[Len(s)] \in chars THEN rstrip(SubSeq(s, 1, Len(s) - 1), chars) ELSE s

IsAscii(c) == c \in AsciiChars
IsSafe(c) == c \in SafeChars

secure_filename(filename) ==
    rstrip(lstrip(SelectSeq(JoinSplit(ReplaceSep(SelectSeq(filename, IsAscii)),
                                      << >>, FALSE), IsSafe),
                  {".", "_"}), {".", "_"})

(***************************************************************************)
(* Texts.  nltk's word_tokenize counts every token, punctuation included;  *)
(* sent_tokenize ends a sentence at each "." token, and a trailing run of  *)
(* tokens without a final "." is a sentence too.                           *)
(***************************************************************************)
Tok(t, p) == [text |-> t, pos |-> p]

\* a Python value: a str (its tokens) or the dict summarize_input returns
PyStr(t) == [type |-> "str", val |-> t]

IsSentenceEnd(tok) == tok.text = "."

sent_tokenize_count(t) ==
    Len(SelectSeq(t, IsSentenceEnd))
      + (IF t # << >> /\ ~ IsSentenceEnd(t[Len(t)]) THEN 1 ELSE 0)

word_tokenize_count(t) == Len(t)

\* a call's outcome: the exception's string ("" when none was raised) and the value
Ok(v) == [exc |-> "", val |-> v]
Raise(msg) == [exc |-> msg, val |-> << >>]

\* the rest of a block runs on the value of a call that raised nothing; an exception
\* ends the block
Then(outcome, Rest(_)) == IF outcome.exc # "" THEN outcome ELSE Rest(outcome.val)

TypeErrorText == "expected string or bytes-like object"

\* count_sentences_words: (sentence count, word count); the tokenizers raise
\* TypeError on anything that is not a str
count_sentences_words(v) ==
    IF v.type = "str"
    THEN Ok(<< sent_tokenize_count(v.val), word_tokenize_count(v.val) >>)
    ELSE Raise(TypeErrorText)

(***************************************************************************)
(* The keyword extractor: Counter(...).most_common(n) over the surface     *)
(* forms of the tokens tagged NOUN, ADJ or VERB.                           *)
(***************************************************************************)
KeywordTags == {"NOUN", "ADJ", "VERB"}

IsKeywordToken(tok) == tok.pos \in KeywordTags

\* [token.text for token in doc if token.pos_ in [...]]
KeywordForms(doc) ==
    LET sel == SelectSeq(doc, IsKeywordToken)
    IN  [ i \in DOMAIN sel |-> sel[i].text ]

CountOf(forms, f) == Cardinality({ i \in DOMAIN forms : forms[i] = f })

\* the keys of a Counter, in order of first insertion
RECURSIVE CounterKeys(_, _)
CounterKeys(forms, keys) ==
    IF forms = << >> THEN keys
    ELSE CounterKeys(Tail(forms),
                     IF Head(forms) \in Range(keys) THEN keys ELSE Append(keys, Head(forms)))

\* Counter(forms).items(): (key, count) pairs in insertion order
Counter(forms) ==
    LET keys == CounterKeys(forms, << >>)
    IN  [ i \in DOMAIN keys |-> << keys[i], CountOf(forms, keys[i]) >> ]

RemoveAt(s, i) == SubSeq(s, 1, i - 1) \o SubSeq(s, i + 1, Len(s))

\* nlargest with the tie rule reversed: the later of two equal counts comes first
RECURSIVE nlargest_last_tie(_, _)
nlargest_last_tie(n, items) ==
    IF n <= 0 \/ items = << >> THEN << >>
    ELSE LET best == CHOOSE i \in DOMAIN items :
                       \A j \in DOMAIN items :
                          \/ items[j][2] < items[i][2]
                          \/ (items[j][2] = items[i][2] /\ j <= i)
         IN  << items[best] >> \o nlargest_last_tie(n - 1, RemoveAt(items, best))

\* heapq.nlargest(n, items, key=count): sorted(items, key=count, reverse=True)[:n],
\* a stable sort, so the earlier of two equal counts comes first
RECURSIVE nlargest(_, _)
nlargest(n, items) ==
    IF n <= 0 \/ items = << >> THEN << >>
    ELSE LET best == CHOOSE i \in DOMAIN items :
                       \A j \in DOMAIN items :
                          \/ items[j][2] < items[i][2]
                          \/ (items[j][2] = items[i][2] /\ i <= j)
         IN  << items[best] >> \o nlargest(n - 1, RemoveAt(items, best))

most_common(counter, n) == nlargest(n, counter)

extract_keywords(doc, num_keywords) ==
    LET most_common_keywords == most_common(Counter(KeywordForms(doc)), num_keywords)
    IN  [ i \in DOMAIN most_common_keywords |-> most_common_keywords[i][1] ]

(***************************************************************************)
(* The state.  Requests are handled in the slots of Slots; in Spec one     *)
(* slot serves the requests one after the other, in SpecConcurrent two     *)
(* slots serve one request each, with their steps interleaved.             *)
(***************************************************************************)
VARIABLES
    disk,            \* the upload directory: stored name -> {} or {file contents}
    pc,              \* each slot's position in upload_file
    req,             \* each slot's request
    filename,        \* the handler's local: the sanitized file name
    extracted_text,  \* the handler's local: the extracted text
    resp,            \* each slot's response
    routine,         \* history: the extraction routine the slot was dispatched to
    raised,          \* history: the exception raised inside the try block ("" = none)
    fault,           \* history: the library call that failed for this request
    steps,           \* history: the handler states the slot's request went through
    handled,         \* number of requests that have arrived
    last_writer,     \* history: stored name -> the slot whose save wrote it last (0 = none)
    kw_doc, kw_n, kw_out, kw_pc   \* one call of extract_keywords (SpecKeywords)

vars == << disk, pc, req, filename, extracted_text, resp, routine, raised, fault,
           steps, handled, last_writer, kw_doc, kw_n, kw_out, kw_pc >>

handler_vars == << disk, pc, req, filename, extracted_text, resp, routine, raised,
                   fault, steps, handled, last_writer >>

kw_vars == << kw_doc, kw_n, kw_out, kw_pc >>

Slots == {1, 2}

(***************************************************************************)
(* Inputs: file names, file contents and query parameters.                 *)
(***************************************************************************)
FnEmpty == << >>
FnNoExt == << "a" >>
FnExe == << "a", ".", "e", "x", "e" >>
FnTxt == << "a", ".", "t", "x", "t" >>
FnTraversal == << ".", ".", "/", "a", ".", "t", "x", "t" >>
FnUpperPdf == << "a", ".", "P", "D", "F" >>
FnPdf == << "a", ".", "p", "d", "f" >>
FnDocx == << "a", ".", "d", "o", "c", "x" >>
FnJpeg == << "a", ".", "j", "p", "e", "g" >>

Filenames == { FnEmpty, FnNoExt, FnExe, FnTxt, FnTraversal, FnUpperPdf, FnPdf, FnDocx,
               FnJpeg }

\* the names a file can be stored under
StoredNames == { secure_filename(f) : f \in { g \in Filenames : allowed_file(g) } }

UPLOAD_FOLDER == "uploads"

\* "dog run dog. the cat."  2 sentences, 7 tokens
TextA == << Tok("dog", "NOUN"), Tok("run", "VERB"), Tok("dog", "NOUN"), Tok(".", "PUNCT"),
            Tok("the", "DET"), Tok("cat", "NOUN"), Tok(".", "PUNCT") >>
\* "big cat."  1 sentence, 3 tokens
TextB == << Tok("big", "ADJ"), Tok("cat", "NOUN"), Tok(".", "PUNCT") >>
\* a text that is the path of a stored file
TextPath == << Tok(UPLOAD_FOLDER \o "/" \o Str(FnTxt), "NOUN") >>

\* file contents: unreadable by the extractors, or holding a text
Contents(t) == [corrupt |-> FALSE, text |-> t]
Corrupt == [corrupt |-> TRUE, text |-> << >>]

Docs == { Corrupt, Contents(<< >>), Contents(TextA), Contents(TextPath) }
ConcurrentDocs == { Contents(TextA), Contents(TextB) }

\* what the summarization model may generate
Summaries == { << Tok("dog", "NOUN"), Tok("run", "VERB"), Tok(".", "PUNCT") >>,
               << Tok("cat", "NOUN"), Tok(".", "PUNCT"), Tok("dog", "NOUN"), Tok("run", "VERB"),
                  Tok(".", "PUNCT") >> }

\* the library call that fails while the request is analysed
Faults == { "none", "count", "keywords", "summary" }

Args(type, sent_number, selected_keyword) ==
    [type |-> type, sent_number |-> sent_number, selected_keyword |-> selected_keyword]

ArgSets ==
    { Args(t, n, k) : t \in { {}, {"paragraph"}, {"keywords"} },
                      n \in { {}, {<< "2" >>}, {<< "a", "b", "c" >>} },
                      k \in { {}, {<< "d", "o", "g", ",", " ", "c", "a", "t" >>} } }

NoArgs == Args({}, {}, {})

Request(method, path, files, args) ==
    [method |-> method, path |-> path, files |-> files, args |-> args]

\* request.files: {} without a 'file' part, else the part's file name and bytes
FilePart(name, data) == [filename |-> name, data |-> data]

\* the requests of Spec: every file name with every file contents, without query
\* parameters and with type=keywords alone; every combination of query parameters
\* without a file part and with a .txt file of every contents
Requests ==
    { Request("GET", "/", {}, NoArgs), Request("GET", "/upload", {}, NoArgs) }
      \cup { Request("POST", "/upload", {}, a) : a \in ArgSets }
      \cup { Request("POST", "/upload", {FilePart(FnTxt, d)}, a) : d \in Docs, a \in ArgSets }
      \cup { Request("POST", "/upload", {FilePart(f, d)}, a) :
                f \in Filenames, d \in Docs, a \in { NoArgs, Args({"keywords"}, {}, {}) } }

ConcurrentRequests ==
    { Request("POST", "/upload", {FilePart(f, d)}, NoArgs) :
         f \in {FnTxt, FnTraversal}, d \in ConcurrentDocs }

NoRequest == Request("", "", {}, NoArgs)

The(option) == CHOOSE x \in option : TRUE

(***************************************************************************)
(* Responses: a status and the JSON object of the body.                    *)
(***************************************************************************)
Response(status, body) == [status |-> status, body |-> body]

NoResponse == Response(0, [pending |-> TRUE])

\* jsonify({'error': message}), status
JsonError(status, message) == Response(status, [error |-> message])

\* an except clause narrowed to summarize_input's ValueError: any other exception
\* escapes the handler
except_ValueError_only(outcome) ==
    IF outcome.exc = "" THEN outcome.val
    ELSE IF outcome.exc = "Unsupported file format" THEN JsonError(400, outcome.exc)
    ELSE Response(500, [escaped |-> outcome.exc])

\* the outcome of the try block: except Exception turns any exception into a 400
except_Exception(outcome) ==
    IF outcome.exc = "" THEN outcome.val ELSE JsonError(400, outcome.exc)

(***************************************************************************)
(* The extractors.  Each reads the stored file; a missing file and         *)
(* contents the parsing library cannot read raise.                         *)
(***************************************************************************)
ReadStored(d, name, error) ==
    IF d[name] = {} THEN Raise("No such file or directory")
    ELSE IF The(d[name]).corrupt THEN Raise(error)
    ELSE Ok(The(d[name]).text)

extract_text_from_pdf(d, name) == ReadStored(d, name, "Stream has ended unexpectedly")
extract_text_from_word_document(d, name) == ReadStored(d, name, "File is not a zip file")
extract_text_from_text_file(d, name) == ReadStored(d, name, "codec can't decode byte")
extract_text_from_image(d, name) == ReadStored(d, name, "cannot identify image file")

Extractor(d, name, rt) ==
    CASE rt = "pdf" -> extract_text_from_pdf(d, name)
      [] rt = "docx" -> extract_text_from_word_document(d, name)
      [] rt = "txt" -> extract_text_from_text_file(d, name)
      [] rt = "image" -> extract_text_from_image(d, name)

DotPdf == << ".", "p", "d", "f" >>
DotDocx == << ".", "d", "o", "c", "x" >>
DotTxt == << ".", "t", "x", "t" >>
DotPng == << ".", "p", "n", "g" >>
DotJpg == << ".", "j", "p", "g" >>
DotJpeg == << ".", "j", "p", "e", "g" >>

\* the handler's filename.endswith chain: the routine, "" for the 415 branch
Dispatch(name) ==
    IF endswith(name, DotPdf) THEN "pdf"
    ELSE IF endswith(name, DotDocx) THEN "docx"
    ELSE IF endswith(name, DotTxt) THEN "txt"
    ELSE IF \E e \in {DotPng, DotJpg, DotJpeg} : endswith(name, e) THEN "image"
    ELSE ""

(***************************************************************************)
(* Library calls that may fail for a request, and the handler's            *)
(* arithmetic.                                                             *)
(***************************************************************************)
\* the exception's string when the library call flt fails
FaultText(flt) ==
    CASE flt = "count" -> "Resource punkt not found"
      [] flt = "keywords" -> "tagger failure"
      [] flt = "summary" -> "model failure"
      [] OTHER -> ""

\* count_sentences_words, with the tokenizer's own failure
CountCall(flt, v) ==
    IF flt = "count" THEN Raise(FaultText(flt)) ELSE count_sentences_words(v)

\* extract_keywords, with the tagger's own failure
KeywordsCall(flt, doc, n) ==
    IF flt = "keywords" THEN Raise(FaultText(flt)) ELSE Ok(extract_keywords(doc, n))

\* generate_summary: num_sentences is not used; summary is what the model generates
generate_summary(flt, input_text, num_sentences, summary) ==
    IF flt = "summary" THEN Raise(FaultText(flt)) ELSE Ok(summary)

\* ",".join(keywords)
RECURSIVE join(_, _)
join(sep, strs) ==
    IF strs = << >> THEN ""
    ELSE IF Len(strs) = 1 THEN strs[1]
    ELSE strs[1] \o sep \o join(sep, Tail(strs))

DigitValue(c) == (CHOOSE i \in DOMAIN Digits : Digits[i] = c) - 1

RECURSIVE DecimalValue(_, _)
DecimalValue(s, acc) ==
    IF s = << >> THEN acc ELSE DecimalValue(Tail(s), acc * 10 + DigitValue(Head(s)))

\* int(s) for a str: blanks stripped, an optional sign, then digits only
int(s) ==
    LET t == rstrip(lstrip(s, {" "}), {" "})
        signed == t # << >> /\ Head(t) \in {"+", "-"}
        digits == IF signed THEN Tail(t) ELSE t
    IN  IF digits # << >> /\ \A i \in DOMAIN digits : digits[i] \in Range(Digits)
        THEN Ok((IF signed /\ Head(t) = "-" THEN -1 ELSE 1) * DecimalValue(digits, 0))
        ELSE Raise("invalid literal for int() with base 10: '" \o Str(s) \o "'")

\* sent_number_arg made lenient: a bad literal falls back to the default
sent_number_arg_lenient(args) ==
    IF args.sent_number = {} \/ int(The(args.sent_number)).exc # "" THEN Ok(5)
    ELSE int(The(args.sent_number))

\* int(request.args.get('sent_number', 5))
sent_number_arg(args) ==
    IF args.sent_number = {} THEN Ok(5) ELSE int(The(args.sent_number))

\* a percentage kept exact, as << numerator, denominator >>
RatEq(x, y) == x[1] * y[2] = y[1] * x[2]

\* (original - summary) / original * 100
reduction(original, summary) ==
    IF original = 0 THEN Raise("division by zero")
    ELSE Ok(<< (original - summary) * 100, original >>)

(***************************************************************************)
(* summarize_input: the helper the keywords branch calls on the            *)
(* extracted text.                                                         *)
(***************************************************************************)
PathOf(name) == UPLOAD_FOLDER \o "/" \o Str(name)

\* os.path.isfile(text): the text is the path of a stored file
isfile(d, t) ==
    /\ Len(t) = 1
    /\ \E n \in StoredNames : d[n] # {} /\ t[1].text = PathOf(n)

StoredAt(d, t) == CHOOSE n \in StoredNames : d[n] # {} /\ t[1].text = PathOf(n)

\* os.path.splitext(name)[1]: from the last dot on, "" when no dot follows a character
splitext(name) ==
    IF rfind(name, ".") > 1 THEN SubSeq(name, rfind(name, "."), Len(name)) ELSE << >>

PyDict(summary, original, summarized, keywords) ==
    [type |-> "dict", summary |-> summary,
     original_sentences |-> original[1], original_words |-> original[2],
     summarized_sentences |-> summarized[1], summarized_words |-> summarized[2],
     keywords |-> keywords]

LoadInput(d, input_text_or_file) ==
    IF isfile(d, input_text_or_file)
    THEN LET name == StoredAt(d, input_text_or_file)
             file_extension == splitext(name)
         IN  IF file_extension = DotTxt THEN extract_text_from_text_file(d, name)
             ELSE IF file_extension = DotPdf THEN extract_text_from_pdf(d, name)
             ELSE IF file_extension = DotDocx THEN extract_text_from_word_document(d, name)
             ELSE IF file_extension \in {DotPng, DotJpg, DotJpeg}
                  THEN extract_text_from_image(d, name)
             ELSE Raise("Unsupported file format")
    ELSE Ok(input_text_or_file)

summarize_input(d, input_text_or_file, num_sentences, flt, generated) ==
    Then(LoadInput(d, input_text_or_file), LAMBDA text :
    Then(CountCall(flt, PyStr(text)), LAMBDA original :
    Then(generate_summary(flt, text, num_sentences, generated), LAMBDA summary :
    Then(CountCall(flt, PyStr(summary)), LAMBDA summarized :
    Then(KeywordsCall(flt, summary, 5), LAMBDA keywords :
    Ok(PyDict(summary, original, summarized, keywords)))))))

(***************************************************************************)
(* upload_file, after extraction: counting, keyword extraction, the query  *)
(* parameters and the three branches.  The value is the try block's        *)
(* outcome: a response, or the exception raised.                           *)
(***************************************************************************)
\* the sentence_reduction_info dict
ReductionInfo(num_word, num_sent, summary_num_word, summary_num_sent) ==
    Then(reduction(num_word, summary_num_word), LAMBDA reduction_word :
    Then(reduction(num_sent, summary_num_sent), LAMBDA reduction_sentence :
    Ok([reduction_word |-> reduction_word, reduction_sentence |-> reduction_sentence])))

ParagraphResponse(summary, counts, num_word, num_sent) ==
    Then(ReductionInfo(num_word, num_sent, counts[1], counts[2]),
         LAMBDA sentence_reduction_info :
    Ok(Response(200, [text |-> summary, Rnum_word |-> counts[1], Rnum_sent |-> counts[2],
                      statistics |-> sentence_reduction_info])))

ParagraphBranch(text, num_word, num_sent, sent_number, flt, generated) ==
    Then(generate_summary(flt, text, sent_number, generated), LAMBDA summary :
    Then(CountCall(flt, PyStr(summary)), LAMBDA counts :
    ParagraphResponse(summary, counts, num_word, num_sent)))

KeywordResponse(selected_keyword_summary, counts, num_word, num_sent) ==
    Then(ReductionInfo(num_word, num_sent, counts[1], counts[2]),
         LAMBDA sentence_reduction_info :
    Ok(Response(200, [keyword_summary |-> selected_keyword_summary,
                      num_word |-> counts[1], num_sent |-> counts[2],
                      statistics |-> sentence_reduction_info])))

KeywordsBranch(d, text, num_word, num_sent, args, sent_number, flt, generated) ==
    IF args.selected_keyword # {}
    THEN Then(summarize_input(d, text, sent_number, flt, generated),
              LAMBDA selected_keyword_summary :
         Then(CountCall(flt, selected_keyword_summary), LAMBDA counts :
         KeywordResponse(selected_keyword_summary, counts, num_word, num_sent)))
    ELSE Ok(JsonError(400, "Invalid keywords"))

BranchOnType(d, text, num_word, num_sent, result, args, sent_number, flt, generated) ==
    IF args.type = {"paragraph"}
    THEN ParagraphBranch(text, num_word, num_sent, sent_number, flt, generated)
    ELSE IF args.type = {"keywords"}
    THEN KeywordsBranch(d, text, num_word, num_sent, args, sent_number, flt, generated)
    ELSE Ok(Response(200, [text |-> text, Lnum_word |-> num_word, Lnum_sent |-> num_sent,
                           keywords |-> result]))

\* num_word, num_sent = count_sentences_words(extracted_text): the first component,
\* the sentence count, goes to num_word and the second, the word count, to num_sent
Branching(d, text, args, flt, generated) ==
    Then(CountCall(flt, PyStr(text)), LAMBDA counts :
    Then(KeywordsCall(flt, text, 5), LAMBDA keywords :
    Then(sent_number_arg(args), LAMBDA sent_number :
    BranchOnType(d, text, counts[1], counts[2], join(",", keywords), args, sent_number,
                 flt, generated))))

(***************************************************************************)
(* upload_file, before extraction: the checks and the save.                *)
(***************************************************************************)
\* bool(file): a FileStorage is true when its filename is not empty
Truthy(file) == file.filename # << >>

\* CheckUpload with two checks swapped: the extension is tested before the file name
CheckUpload_extension_first(rq) ==
    IF rq.method = "POST"
    THEN IF rq.files = {} THEN JsonError(400, "No file part")
         ELSE IF ~ (Truthy(The(rq.files)) /\ allowed_file(The(rq.files).filename))
              THEN JsonError(400, "Invalid file type")
         ELSE IF The(rq.files).filename = << >> THEN JsonError(400, "No selected file")
         ELSE NoResponse
    ELSE Response(200, [message |-> "GET request received"])

\* the entry of upload_file: the response of a request that ends here, NoResponse for
\* a POST that goes on to save its file
CheckUpload(rq) ==
    IF rq.method = "POST"
    THEN IF rq.files = {} THEN JsonError(400, "No file part")
         ELSE IF The(rq.files).filename = << >> THEN JsonError(400, "No selected file")
         ELSE IF Truthy(The(rq.files)) /\ allowed_file(The(rq.files).filename)
              THEN NoResponse
         ELSE JsonError(400, "Invalid file type")
    ELSE Response(200, [message |-> "GET request received"])

\* save with a cleanup: the upload directory is emptied first
save_into_emptied_folder(d, name, data) ==
    [ n \in DOMAIN d |-> IF n = name THEN {data} ELSE {} ]

\* file.save(filepath): the file of that name now holds the uploaded bytes
save(d, name, data) == [ d EXCEPT ![name] = {data} ]

\* a save that fails leaves the directory as it was, or the file cut short
SaveOutcomes == { "saved", "failed", "failed_partial" }

InitHandler ==
    /\ disk = [ n \in StoredNames |-> {} ]
    /\ pc = [ r \in Slots |-> "idle" ]
    /\ req = [ r \in Slots |-> NoRequest ]
    /\ filename = [ r \in Slots |-> << >> ]
    /\ extracted_text = [ r \in Slots |-> << >> ]
    /\ resp = [ r \in Slots |-> NoResponse ]
    /\ routine = [ r \in Slots |-> "" ]
    /\ raised = [ r \in Slots |-> "" ]
    /\ fault = [ r \in Slots |-> "none" ]
    /\ steps = [ r \in Slots |-> {} ]
    /\ handled = 0
    /\ last_writer = [ n \in StoredNames |-> 0 ]

Init ==
    /\ InitHandler
    /\ kw_doc = << >>
    /\ kw_n = 0
    /\ kw_out = << >>
    /\ kw_pc = "off"

\* the tagged tokens the token streams of SpecKeywords are made of
KeywordTokens ==
    { Tok("dog", "NOUN"), Tok("Dog", "NOUN"), Tok("run", "VERB"), Tok("run", "NOUN"),
      Tok("big", "ADJ"), Tok("the", "DET") }

SeqsUpTo(S, n) == UNION { [1..k -> S] : k \in 0..n }

InitKeywords ==
    /\ InitHandler
    /\ kw_doc \in SeqsUpTo(KeywordTokens, MaxTokens)
    /\ kw_n \in 0..MaxKeywords
    /\ kw_out = << >>
    /\ kw_pc = "call"

(***************************************************************************)
(* Actions.                                                                *)
(***************************************************************************)
\* a request arrives in the free slot r: the handler's local values are fresh
Arrive(r, rq) ==
    /\ pc[r] = "idle"
    /\ handled < MaxRequests
    /\ handled' = handled + 1
    /\ req' = [req EXCEPT ![r] = rq]

\* the response has been sent: the request's values are gone, the slot is free
Finish(r) ==
    /\ pc[r] = "done"
    /\ pc' = [pc EXCEPT ![r] = "idle"]
    /\ req' = [req EXCEPT ![r] = NoRequest]
    /\ filename' = [filename EXCEPT ![r] = << >>]
    /\ extracted_text' = [extracted_text EXCEPT ![r] = << >>]
    /\ resp' = [resp EXCEPT ![r] = NoResponse]
    /\ routine' = [routine EXCEPT ![r] = ""]
    /\ raised' = [raised EXCEPT ![r] = ""]
    /\ fault' = [fault EXCEPT ![r] = "none"]
    /\ steps' = [steps EXCEPT ![r] = {}]
    /\ UNCHANGED << disk, handled, last_writer, kw_vars >>

\* index(): GET /
Index(r, rq) ==
    /\ rq.path = "/"
    /\ Arrive(r, rq)
    /\ resp' = [resp EXCEPT ![r] = Response(200, [plain |-> "Welcome to Text Summarization"])]
    /\ pc' = [pc EXCEPT ![r] = "done"]
    /\ UNCHANGED << disk, filename, extracted_text, routine, raised, fault, steps,
                    last_writer, kw_vars >>

\* upload_file, AwaitingFile and Validating: the GET acknowledgement and the checks
CheckRequest(r, rq) ==
    /\ rq.path = "/upload"
    /\ Arrive(r, rq)
    /\ LET answer == CheckUpload(rq)
       IN  /\ resp' = [resp EXCEPT ![r] = answer]
           /\ pc' = [pc EXCEPT ![r] = IF answer = NoResponse THEN "persist" ELSE "done"]
    /\ steps' = [steps EXCEPT ![r] = @ \cup {"checked"}]
    /\ UNCHANGED << disk, filename, extracted_text, routine, raised, fault, last_writer,
                    kw_vars >>

\* upload_file, Persisting: secure_filename and file.save, outside the try block
Persist(r) ==
    /\ pc[r] = "persist"
    /\ handled' = handled
    /\ LET file == The(req[r].files)
           name == secure_filename(file.filename)
       IN  /\ filename' = [filename EXCEPT ![r] = name]
           /\ \E outcome \in SaveOutcomes :
                 /\ disk' = IF outcome = "saved" THEN save(disk, name, file.data)
                            ELSE IF outcome = "failed_partial" THEN save(disk, name, Corrupt)
                            ELSE disk
                 /\ pc' = [pc EXCEPT ![r] = IF outcome = "saved" THEN "extract" ELSE "done"]
                 /\ resp' = [resp EXCEPT ![r] =
                               IF outcome = "saved" THEN NoResponse
                               ELSE Response(500, [escaped |-> "No space left on device"])]
                 /\ steps' = [steps EXCEPT ![r] =
                                IF outcome = "saved" THEN @ \cup {"persisted"} ELSE @]
                 /\ last_writer' = IF outcome = "failed" THEN last_writer
                                   ELSE [last_writer EXCEPT ![name] = r]
    /\ UNCHANGED << req, extracted_text, routine, raised, fault, kw_vars >>

\* upload_file, Extracting: the endswith chain and the extractor, inside the try block
Extract(r) ==
    /\ pc[r] = "extract"
    /\ LET rt == Dispatch(filename[r])
       IN  IF rt = ""
           THEN /\ resp' = [resp EXCEPT ![r] = JsonError(415, "Unsupported file format")]
                /\ pc' = [pc EXCEPT ![r] = "done"]
                /\ UNCHANGED << extracted_text, routine, raised, steps >>
           ELSE LET outcome == Extractor(disk, filename[r], rt)
                IN  /\ routine' = [routine EXCEPT ![r] = rt]
                    /\ raised' = [raised EXCEPT ![r] = outcome.exc]
                    /\ steps' = [steps EXCEPT ![r] = @ \cup {"extraction"}]
                    /\ IF outcome.exc = ""
                       THEN /\ extracted_text' = [extracted_text EXCEPT ![r] = outcome.val]
                            /\ pc' = [pc EXCEPT ![r] = "branch"]
                            /\ UNCHANGED resp
                       ELSE /\ resp' = [resp EXCEPT ![r] = except_Exception(outcome)]
                            /\ pc' = [pc EXCEPT ![r] = "done"]
                            /\ UNCHANGED extracted_text
    /\ UNCHANGED << disk, req, filename, fault, handled, last_writer, kw_vars >>

\* upload_file, Branching and Responding: the rest of the try block
Branch(r) ==
    /\ pc[r] = "branch"
    /\ \E flt \in Faults, generated \in Summaries :
          LET outcome == Branching(disk, extracted_text[r], req[r].args, flt, generated)
          IN  /\ fault' = [fault EXCEPT ![r] =
                             IF outcome.exc = FaultText(flt) THEN flt ELSE "none"]
              /\ raised' = [raised EXCEPT ![r] = outcome.exc]
              /\ resp' = [resp EXCEPT ![r] = except_Exception(outcome)]
    /\ pc' = [pc EXCEPT ![r] = "done"]
    /\ steps' = [steps EXCEPT ![r] = @ \cup {"branching"}]
    /\ UNCHANGED << disk, req, filename, extracted_text, routine, handled, last_writer,
                    kw_vars >>

\* one slot serves the requests one after the other
Next ==
    \/ \E rq \in Requests : Index(1, rq)
    \/ \E rq \in Requests : CheckRequest(1, rq)
    \/ Persist(1)
    \/ Extract(1)
    \/ Branch(1)
    \/ Finish(1)

Spec == Init /\ [][Next]_vars

\* two slots serve one POST each, their steps interleaved
NextConcurrent ==
    \/ \E r \in Slots : \E rq \in ConcurrentRequests : CheckRequest(r, rq)
    \/ \E r \in Slots : Persist(r)
    \/ \E r \in Slots : Extract(r)
    \/ \E r \in Slots : Branch(r)

SpecConcurrent == Init /\ [][NextConcurrent]_vars

\* one call of extract_keywords on a tagged token stream
CallExtractKeywords ==
    /\ kw_pc = "call"
    /\ kw_out' = extract_keywords(kw_doc, kw_n)
    /\ kw_pc' = "done"
    /\ UNCHANGED << kw_doc, kw_n, handler_vars >>

NextKeywords == CallExtractKeywords

SpecKeywords == InitKeywords /\ [][NextKeywords]_vars

(***************************************************************************)
(* C7.  extract_keywords.                                                  *)
(***************************************************************************)
Qualifying(doc) == { i \in DOMAIN doc : doc[i].pos \in {"NOUN", "ADJ", "VERB"} }
QualifyingForms(doc) == { doc[i].text : i \in Qualifying(doc) }
Frequency(doc, f) == Cardinality({ i \in Qualifying(doc) : doc[i].text = f })
FirstOccurrence(doc, f) ==
    CHOOSE i \in Qualifying(doc) :
       doc[i].text = f /\ \A j \in Qualifying(doc) : doc[j].text = f => i <= j
RanksBefore(doc, f, g) ==
    \/ Frequency(doc, f) > Frequency(doc, g)
    \/ /\ Frequency(doc, f) = Frequency(doc, g)
       /\ FirstOccurrence(doc, f) < FirstOccurrence(doc, g)
Min(a, b) == IF a <= b THEN a ELSE b

\* C7: extract_keywords(text, n) returns pairwise distinct surface forms of tokens
\* tagged NOUN, ADJ or VERB, min(n, number of distinct qualifying forms) of them,
\* by frequency descending and, at equal frequency, by first occurrence in the
\* token stream (the forms left out rank after those returned); it returns the
\* empty sequence when no token qualifies; forms are compared case-sensitively.
C7_KeywordsRanked ==
    kw_pc = "done" =>
       /\ \A i \in DOMAIN kw_out : kw_out[i] \in QualifyingForms(kw_doc)
       /\ \A i, j \in DOMAIN kw_out : i # j => kw_out[i] # kw_out[j]
       /\ Len(kw_out) = Min(kw_n, Cardinality(QualifyingForms(kw_doc)))
       /\ \A i, j \in DOMAIN kw_out : i < j => RanksBefore(kw_doc, kw_out[i], kw_out[j])
       /\ \A f \in QualifyingForms(kw_doc) \ Range(kw_out) :
             \A i \in DOMAIN kw_out : RanksBefore(kw_doc, kw_out[i], f)
       /\ (QualifyingForms(kw_doc) = {} => kw_out = << >>)

\* a call that cuts the ranking short, with a tie among the forms returned, forms
\* that differ only in case and a token that does not qualify
C7_Witness ==
    /\ kw_pc = "done"
    /\ Len(kw_out) = 2
    /\ Cardinality(QualifyingForms(kw_doc)) = 3
    /\ Frequency(kw_doc, kw_out[1]) = Frequency(kw_doc, kw_out[2])
    /\ {"dog", "Dog"} \subseteq QualifyingForms(kw_doc)
    /\ \E i \in DOMAIN kw_doc : kw_doc[i].pos = "DET"

(***************************************************************************)
(* Vocabulary of the claims about upload_file.                             *)
(***************************************************************************)
Done(r) == pc[r] = "done"
IsUploadPost(r) == req[r].method = "POST" /\ req[r].path = "/upload"
HasFile(r) == req[r].files # {}
File(r) == The(req[r].files)

\* the extension, compared without regard to case, is one of the six
AllowListed(name) ==
    \E e \in ALLOWED_EXTENSIONS : endswith(lower(name), << "." >> \o e)

\* the extraction routine of an extension
RoutineOf(name) ==
    IF \E e \in { <<"p","n","g">>, <<"j","p","g">>, <<"j","p","e","g">> } :
          endswith(lower(name), << "." >> \o e)
    THEN "image"
    ELSE IF endswith(lower(name), << ".", "p", "d", "f" >>) THEN "pdf"
    ELSE IF endswith(lower(name), << ".", "d", "o", "c", "x" >>) THEN "docx"
    ELSE "txt"

SentenceCount(t) == count_sentences_words(PyStr(t)).val[1]
WordCount(t) == count_sentences_words(PyStr(t)).val[2]

IsIntLiteral(option) == option = {} \/ int(The(option)).exc = ""

\* C1: a POST with type=keywords and selected_keyword present, on an allow-listed
\* file whose extraction succeeds and whose text has non-zero counts (no library
\* call failing, sent_number an integer), ends with a 200 response carrying the
\* keys keyword_summary, num_word, num_sent and statistics.
C1_KeywordSummaryPayload ==
    \A r \in Slots :
       ( /\ Done(r) /\ IsUploadPost(r) /\ HasFile(r)
         /\ req[r].args.type = {"keywords"}
         /\ req[r].args.selected_keyword # {}
         /\ IsIntLiteral(req[r].args.sent_number)
         /\ "branching" \in steps[r]
         /\ WordCount(extracted_text[r]) > 0 /\ SentenceCount(extracted_text[r]) > 0
         /\ fault[r] = "none" )
       => /\ resp[r].status = 200
          /\ DOMAIN resp[r].body = {"keyword_summary", "num_word", "num_sent", "statistics"}

\* C2: in a 200 response to type=paragraph, Rnum_word and Rnum_sent are the
\* summary's word and sentence counts, reduction_word is
\* (original words - summary words) / original words * 100 and reduction_sentence
\* the same over the sentence counts.
C2_ParagraphStatistics ==
    \A r \in Slots :
       ( Done(r) /\ IsUploadPost(r) /\ req[r].args.type = {"paragraph"}
         /\ resp[r].status = 200 )
       => LET body == resp[r].body
              ow == WordCount(extracted_text[r])
              os == SentenceCount(extracted_text[r])
              sw == WordCount(body.text)
              ss == SentenceCount(body.text)
          IN  /\ body.Rnum_word = sw
              /\ body.Rnum_sent = ss
              /\ RatEq(body.statistics.reduction_word, << (ow - sw) * 100, ow >>)
              /\ RatEq(body.statistics.reduction_sentence, << (os - ss) * 100, os >>)

\* C3: in a 200 response to a POST with type unset, text is the extracted text,
\* Lnum_word its word count, Lnum_sent its sentence count and keywords the
\* comma-joined top 5 keywords.
C3_DefaultPayload ==
    \A r \in Slots :
       ( Done(r) /\ IsUploadPost(r) /\ req[r].args.type = {} /\ resp[r].status = 200 )
       => LET body == resp[r].body
          IN  /\ body.text = extracted_text[r]
              /\ body.Lnum_word = WordCount(extracted_text[r])
              /\ body.Lnum_sent = SentenceCount(extracted_text[r])
              /\ body.keywords = join(",", extract_keywords(extracted_text[r], 5))

\* C4: the extension check is case-insensitive, every accepted file name is
\* dispatched to the extraction routine of its extension, and a 415 occurs only
\* for an extension outside the six.
C4_AcceptedIsDispatched ==
    /\ allowed_file(FnUpperPdf) /\ allowed_file(FnPdf) /\ ~ allowed_file(FnExe)
    /\ \A r \in Slots :
          /\ ( Done(r) /\ "persisted" \in steps[r] )
                => routine[r] = RoutineOf(File(r).filename)
          /\ ( Done(r) /\ IsUploadPost(r) /\ resp[r].status = 415 )
                => ~ AllowListed(File(r).filename)

\* C5: a POST without a file part gets 400 "No file part", one with an empty file
\* name 400 "No selected file", one whose extension is not allow-listed 400
\* "Invalid file type", the checks made in this order; none of them reaches the
\* save or the extraction.
C5_Rejections ==
    \A r \in Slots :
       ( Done(r) /\ IsUploadPost(r) )
       => /\ ~ HasFile(r) => resp[r] = JsonError(400, "No file part")
          /\ ( HasFile(r) /\ File(r).filename = << >> )
                => resp[r] = JsonError(400, "No selected file")
          /\ ( HasFile(r) /\ File(r).filename # << >> /\ ~ AllowListed(File(r).filename) )
                => resp[r] = JsonError(400, "Invalid file type")
          /\ ( ~ HasFile(r) \/ ~ AllowListed(File(r).filename) )
                => /\ steps[r] = {"checked"}
                   /\ routine[r] = ""
                   /\ filename[r] = << >>

\* a POST of a file without an extension, rejected
C5_Witness ==
    /\ Done(1) /\ IsUploadPost(1) /\ HasFile(1)
    /\ File(1).filename = FnNoExt
    /\ resp[1] = JsonError(400, "Invalid file type")
    /\ steps[1] = {"checked"}

IsKeywordsWithoutSelection(r) ==
    /\ Done(r) /\ IsUploadPost(r) /\ HasFile(r)
    /\ "persisted" \in steps[r]
    /\ req[r].args.type = {"keywords"}
    /\ req[r].args.selected_keyword = {}

\* C6 as stated: a POST with type=keywords and no selected_keyword on an uploaded
\* allow-listed file ends with 400 "Invalid keywords", whatever the other
\* parameters are.
C6_AlwaysInvalidKeywords ==
    \A r \in Slots :
       IsKeywordsWithoutSelection(r) => resp[r] = JsonError(400, "Invalid keywords")

\* C6 amended: such a request never ends with 200.  It ends with 400 "Invalid
\* keywords" exactly when the stored name ends with a supported lower-case
\* extension, extraction, counting and keyword extraction raise nothing and
\* sent_number is absent or an integer literal.  With a stored name that has no
\* such ending it ends with 415 "Unsupported file format"; otherwise with 400 and
\* the text of the exception raised, which for a sent_number that is no integer
\* literal is int()'s.
C6_InvalidKeywordsUnlessRaised ==
    \A r \in Slots :
       IsKeywordsWithoutSelection(r) =>
          /\ resp[r].status # 200
          /\ resp[r] = JsonError(400, "Invalid keywords")
                <=> /\ Dispatch(filename[r]) # ""
                    /\ "branching" \in steps[r]
                    /\ fault[r] = "none"
                    /\ IsIntLiteral(req[r].args.sent_number)
          /\ Dispatch(filename[r]) = ""
                => resp[r] = JsonError(415, "Unsupported file format")
          /\ ( Dispatch(filename[r]) # "" /\ "branching" \notin steps[r] )
                => raised[r] # "" /\ resp[r] = JsonError(400, raised[r])
          /\ ( "branching" \in steps[r] /\ fault[r] # "none" )
                => resp[r] = JsonError(400, FaultText(fault[r]))
          /\ ( "branching" \in steps[r] /\ fault[r] = "none"
               /\ ~ IsIntLiteral(req[r].args.sent_number) )
                => resp[r] = JsonError(400, int(The(req[r].args.sent_number)).exc)

\* both outcomes that differ by sent_number alone have occurred: this request, with
\* sent_number=abc, got int()'s message
C6_Witness ==
    /\ IsKeywordsWithoutSelection(1)
    /\ req[1].args.sent_number = {<< "a", "b", "c" >>}
    /\ "branching" \in steps[1]
    /\ fault[1] = "none"
    /\ resp[1] = JsonError(400, "invalid literal for int() with base 10: 'abc'")

\* C8: once the file is saved, an exception raised in a later step (extraction,
\* counting, keyword extraction, int(sent_number), summarization, the division by
\* a zero count) ends the request with 400 and the exception's string: nothing
\* escapes the handler and no 200 is produced.
C8_ExceptionsBecome400 ==
    \A r \in Slots :
       ( Done(r) /\ "persisted" \in steps[r] ) =>
          /\ resp[r].status \in {200, 400, 415}
          /\ raised[r] # "" => resp[r] = JsonError(400, raised[r])
          /\ ( routine[r] # "" /\ "branching" \notin steps[r] ) => raised[r] # ""
          /\ fault[r] # "none" => raised[r] = FaultText(fault[r])
          /\ ( "branching" \in steps[r] /\ fault[r] = "none"
               /\ ~ IsIntLiteral(req[r].args.sent_number) )
                => raised[r] = int(The(req[r].args.sent_number)).exc
          /\ ( "branching" \in steps[r] /\ fault[r] = "none"
               /\ IsIntLiteral(req[r].args.sent_number)
               /\ req[r].args.type = {"paragraph"}
               /\ ( WordCount(extracted_text[r]) = 0 \/ SentenceCount(extracted_text[r]) = 0 ) )
                => raised[r] = "division by zero"

\* a paragraph request on an empty text, ended by the division by zero
C8_Witness ==
    /\ Done(1) /\ "branching" \in steps[1]
    /\ req[1].args.type = {"paragraph"}
    /\ extracted_text[1] = << >>
    /\ fault[1] = "none"
    /\ resp[1] = JsonError(400, "division by zero")

\* C9: the upload directory changes only in the Persisting step of a POST that
\* passed the AwaitingFile and Validating checks, and no step of any request
\* removes a stored file: GET requests and rejected POSTs leave the directory as it
\* is, and the file of a request that fails later stays.
C9_DiskOnlyGrows ==
    [][ /\ disk' # disk =>
             \E r \in Slots :
                /\ pc[r] = "persist" /\ pc'[r] \in {"extract", "done"}
                /\ IsUploadPost(r) /\ HasFile(r)
                /\ File(r).filename # << >> /\ AllowListed(File(r).filename)
                /\ \A n \in StoredNames : disk'[n] # disk[n] => n = filename'[r]
        /\ \A n \in StoredNames : disk[n] # {} => disk'[n] # {}
      ]_vars

\* a second request has failed after its save: its file is on disk, beside the file
\* an earlier request saved
C9_Witness ==
    /\ handled = 2
    /\ Done(1) /\ "persisted" \in steps[1]
    /\ resp[1].status = 400
    /\ disk[filename[1]] = {File(1).data}
    /\ \E n \in StoredNames : n # filename[1] /\ disk[n] # {}

\* C10: when two POSTs whose file names sanitize to the same stored name are
\* handled concurrently, each response is computed from the bytes its own request
\* uploaded, and once both are done the stored file holds the bytes of the save
\* that ran last.
C10_OwnBytes ==
    /\ \A r \in Slots :
          ( Done(r) /\ IsUploadPost(r) /\ req[r].args.type = {} /\ resp[r].status = 200 )
             => resp[r].body.text = File(r).data.text
    /\ \A r \in Slots :
          ( /\ \A q \in Slots : Done(q) /\ "persisted" \in steps[q]
                                /\ filename[q] = filename[r]
            /\ last_writer[filename[r]] = r )
          => disk[filename[r]] = {File(r).data}

=============================================================================
